---------------------------- MODULE Spec2Model ----------------------------
(***************************************************************************)
(* A model of atm.py, the Simple ATM Simulator.                            *)
(*                                                                         *)
(* The program keeps one dictionary `data` ({"next_acc", "accounts"}) in   *)
(* the memory of the process, and one file accounts.json on disk.  Each    *)
(* handler reads its inputs from the keyboard, changes `data` in place and *)
(* calls save_data, which opens the file for writing (truncating it) and   *)
(* dumps `data` into it.                                                   *)
(*                                                                         *)
(* Balances and amounts are Python floats.  TLC's integers are 32 bits     *)
(* wide, so the binary64 format is modelled by a binary floating-point     *)
(* format of the same shape with a significand of MantBits bits: finite    *)
(* values are whole multiples of the smallest quantum, every result of an  *)
(* addition or subtraction is rounded to nearest, ties to even, a result   *)
(* beyond the largest finite value becomes inf, and nan and inf behave as  *)
(* in IEEE 754.                                                            *)
(*                                                                         *)
(* The "time" field of a history entry (datetime.utcnow()) is not          *)
(* modelled: no decision of the program reads it.                          *)
(***************************************************************************)
EXTENDS Integers, Sequences, FiniteSets, TLC

(***************************************************************************)
(* Bounds of the model.                                                    *)
(***************************************************************************)
\* Bits of the significand of the modelled float format (binary64 has 53).
MantBits == 2
\* The largest finite float is (2^MantBits - 1) * 2^ExpRange.
ExpRange == 2
\* create_account is offered while fewer than MaxAccounts passed its checks.
MaxAccounts == 2
\* A ledger operation is offered while fewer than MaxOps passed their checks
\* (MaxOpsStep when handlers run statement by statement, MaxOpsConc with two
\* processes).
MaxOps == 2
MaxOpsStep == 2
MaxOpsConc == 1
\* The same bound where one account more than MaxAccounts may be created.
MaxOpsFrame == 2
\* A handler may be killed or fail while at most MaxFails operations of the log
\* (itself included) have not reported success.
MaxFails == 1

\* The first account number (load_data's default store).
BaseAcc == 1001

Procs == {1, 2}

(***************************************************************************)
(* Python floats.                                                          *)
(***************************************************************************)
Fin(n) == [k |-> "fin", v |-> n]
Inf    == [k |-> "inf", v |-> 0]
NegInf == [k |-> "ninf", v |-> 0]
NaN    == [k |-> "nan", v |-> 0]
Zero   == Fin(0)

RECURSIVE Pow2(_)
Pow2(n) == IF n = 0 THEN 1 ELSE 2 * Pow2(n - 1)

FMax == (Pow2(MantBits) - 1) * Pow2(ExpRange)

Abs(n) == IF n < 0 THEN 0 - n ELSE n

\* The spacing of the floats around magnitude n: the smallest power of two q
\* with n < 2^MantBits * q.
RECURSIVE Ulp(_, _)
Ulp(n, q) == IF n < Pow2(MantBits) * q THEN q ELSE Ulp(n, 2 * q)

\* Round a magnitude to MantBits significant bits, to nearest, ties to even.
RoundMag(n) ==
    LET q == Ulp(n, 1)
        m == n \div q
        r == n % q
    IN  IF 2 * r < q THEN m * q
        ELSE IF 2 * r > q THEN (m + 1) * q
        ELSE IF m % 2 = 0 THEN m * q ELSE (m + 1) * q

\* The float nearest to the real number x.
Round(x) ==
    LET mag == RoundMag(Abs(x))
    IN  IF mag > FMax THEN (IF x < 0 THEN NegInf ELSE Inf)
        ELSE Fin(IF x < 0 THEN 0 - mag ELSE mag)

FNeg(a) ==
    CASE a.k = "fin"  -> Fin(0 - a.v)
      [] a.k = "inf"  -> NegInf
      [] a.k = "ninf" -> Inf
      [] OTHER        -> NaN

\* a + b of Python floats (the += of deposit and transfer).
FAddExact(a, b) ==
    CASE a.k = "nan" \/ b.k = "nan"   -> NaN
      [] a.k = "inf" /\ b.k = "ninf"  -> NaN
      [] a.k = "ninf" /\ b.k = "inf"  -> NaN
      [] a.k = "inf" \/ b.k = "inf"   -> Inf
      [] a.k = "ninf" \/ b.k = "ninf" -> NegInf
      [] OTHER                        -> Fin(a.v + b.v)

FAdd(a, b) ==
    LET x == FAddExact(a, b) IN IF x.k = "fin" THEN Round(x.v) ELSE x

\* a - b of Python floats (the -= of withdraw and transfer).
FSub(a, b) == FAdd(a, FNeg(b))

\* a < b of Python floats: False when either is nan.
FLt(a, b) ==
    CASE a.k = "nan" \/ b.k = "nan" -> FALSE
      [] a.k = "inf"                -> FALSE
      [] a.k = "ninf"               -> b.k # "ninf"
      [] b.k = "inf"                -> TRUE
      [] b.k = "ninf"               -> FALSE
      [] OTHER                      -> a.v < b.v

\* a == b of Python floats: False when either is nan.
FEq(a, b) == a.k # "nan" /\ b.k # "nan" /\ a = b

\* a <= b of Python floats.
FLe(a, b) == FLt(a, b) \/ FEq(a, b)

(***************************************************************************)
(* Keyboard input.                                                         *)
(***************************************************************************)
\* What the user may type at an amount prompt (after .strip()).
AmountInputs == {"abc", "nan", "inf", "-1", "0", "1", "4", "8"}

\* float(s): [ok |-> FALSE] stands for ValueError.
ParseFloat(s) ==
    CASE s = "nan" -> [ok |-> TRUE, val |-> NaN]
      [] s = "inf" -> [ok |-> TRUE, val |-> Inf]
      [] s = "-1"  -> [ok |-> TRUE, val |-> Round(0 - 1)]
      [] s = "0"   -> [ok |-> TRUE, val |-> Round(0)]
      [] s = "1"   -> [ok |-> TRUE, val |-> Round(1)]
      [] s = "4"   -> [ok |-> TRUE, val |-> Round(4)]
      [] s = "8"   -> [ok |-> TRUE, val |-> Round(8)]
      [] OTHER     -> [ok |-> FALSE, val |-> NaN]

\* What the user may type at a name prompt (after .strip()).
NameInputs == {"", "Ann"}

\* What the user may type at a PIN prompt: strings, as sequences of characters.
Digits == {"0", "1", "2", "3", "4", "5", "6", "7", "8", "9"}
PinInputs == { <<"1", "2", "3", "4">>, <<"0", "0", "0", "0">>,
               <<"1", "2", "a", "4">>, <<"1", "2", "3">> }

\* What the user may type at the "Confirm PIN" prompt.
ConfirmInputs == { <<"1", "2", "3", "4">>, <<"1", "2", "3">> }

\* len(pin) == 4 and pin.isdigit()
PinWellFormed(pin) == Len(pin) = 4 /\ \A i \in 1..Len(pin) : pin[i] \in Digits

\* What the user may type at an account number prompt: the numbers the store
\* can give out, one beyond them, and "01001", another spelling of 1001.
AcctInputs == { ToString(BaseAcc + i) : i \in 0..MaxAccounts } \cup {"01001"}

NoAcc == ""

(***************************************************************************)
(* The store: the dictionary `data`.                                       *)
(***************************************************************************)
NoAccounts == [a \in {} |-> 0]

\* load_data's store when the file does not exist.
DefaultStore == [next_acc |-> BaseAcc, accounts |-> NoAccounts]

Entry(typ, amount, note) == [type |-> typ, amount |-> amount, note |-> note]

\* The record, were a new account to start with a balance of 1.
NewAccount_with_balance(name, pin) ==
    [name |-> name, pin |-> pin, balance |-> [k |-> "fin", v |-> 1],
     history |-> << Entry("create", Zero, <<"Account created">>) >>]

\* The record create_account stores for a new account.
NewAccount(name, pin) ==
    [name |-> name, pin |-> pin, balance |-> Zero,
     history |-> << Entry("create", Zero, <<"Account created">>) >>]

\* add_history, were it to insert the entry at the front of the history.
add_history_at_front(data, acc, typ, amount, note) ==
    [data EXCEPT !.accounts[acc].history = <<Entry(typ, amount, note)>> \o @]

\* add_history(data, acc, typ, amount, note)
add_history(data, acc, typ, amount, note) ==
    [data EXCEPT !.accounts[acc].history = Append(@, Entry(typ, amount, note))]

(***************************************************************************)
(* The file accounts.json.  json.dump writes a float as a number token, or *)
(* as NaN, Infinity or -Infinity; json.load reads the tokens back.         *)
(***************************************************************************)
JsonNum(x) ==
    CASE x.k = "fin"  -> [tok |-> "number", v |-> x.v]
      [] x.k = "inf"  -> [tok |-> "Infinity", v |-> 0]
      [] x.k = "ninf" -> [tok |-> "-Infinity", v |-> 0]
      [] OTHER        -> [tok |-> "NaN", v |-> 0]

JsonParseNum(t) ==
    CASE t.tok = "number"    -> Fin(t.v)
      [] t.tok = "Infinity"  -> Inf
      [] t.tok = "-Infinity" -> NegInf
      [] OTHER               -> NaN

JsonDump(data) ==
    [next_acc |-> data.next_acc,
     accounts |-> [a \in DOMAIN data.accounts |->
        [name    |-> data.accounts[a].name,
         pin     |-> data.accounts[a].pin,
         balance |-> JsonNum(data.accounts[a].balance),
         history |-> [i \in 1..Len(data.accounts[a].history) |->
            [type   |-> data.accounts[a].history[i].type,
             amount |-> JsonNum(data.accounts[a].history[i].amount),
             note   |-> data.accounts[a].history[i].note]]]]]

JsonLoad(doc) ==
    [next_acc |-> doc.next_acc,
     accounts |-> [a \in DOMAIN doc.accounts |->
        [name    |-> doc.accounts[a].name,
         pin     |-> doc.accounts[a].pin,
         balance |-> JsonParseNum(doc.accounts[a].balance),
         history |-> [i \in 1..Len(doc.accounts[a].history) |->
            [type   |-> doc.accounts[a].history[i].type,
             amount |-> JsonParseNum(doc.accounts[a].history[i].amount),
             note   |-> doc.accounts[a].history[i].note]]]]]

\* The file: absent, holding a whole JSON document, or torn (opened for
\* writing, which truncates it, and not yet written to the end).
NoDoc == JsonDump(DefaultStore)
FileAbsent == [st |-> "absent", doc |-> NoDoc]
FileTorn   == [st |-> "torn", doc |-> NoDoc]
FileOf(data) == [st |-> "ok", doc |-> JsonDump(data)]

\* load_data(): [ok |-> FALSE] stands for json.load raising JSONDecodeError.
load_data(file) ==
    CASE file.st = "absent" -> [ok |-> TRUE, data |-> DefaultStore]
      [] file.st = "ok"     -> [ok |-> TRUE, data |-> JsonLoad(file.doc)]
      [] OTHER              -> [ok |-> FALSE, data |-> DefaultStore]


\* The last thing printed: by which process and which handler, the text, the
\* account the handler was called for, and the values printed with the text.
Out(p, op, msg, a) == [p |-> p, op |-> op, msg |-> msg, acc |-> a, val |-> <<>>]
NoOut == Out(0, "", "", NoAcc)

NoCall == [op |-> "", at |-> "", disk |-> FileAbsent, data |-> DefaultStore]

\* An entry of the log: an operation that passed its checks, and whether it
\* has reported success.
LogEntry(op, a, to, amt) ==
    [op |-> op, acc |-> a, to |-> to, amt |-> amt, ok |-> FALSE]

(***************************************************************************)
(* The handlers.  A handler reads its input, makes its checks, and either  *)
(* prints a rejection and returns, or executes a sequence of statements.   *)
(***************************************************************************)
Rejected(msg) ==
    [ok |-> FALSE, msg |-> msg, prog |-> <<>>, entry |-> LogEntry("", NoAcc, NoAcc, Zero)]
Accepted(prog, entry) == [ok |-> TRUE, msg |-> "", prog |-> prog, entry |-> entry]

Say(op, msg, a) == [op |-> "print", op_ |-> op, msg |-> msg, acc |-> a]

\* save_data, were it to write nothing.
save_data_never == << >>

\* save_data(data): open(DATA_FILE, "w"), which truncates the file, then
\* json.dump(data, f) and the close at the end of the with block.
save_data == << [op |-> "open_w"], [op |-> "dump"] >>

\* create_account, were it to leave next_acc as it is.
create_account_keeps_next(data, nm, pin) ==
    LET acc_num == ToString(data.next_acc)
    IN  Accepted(<< [op |-> "put_account", acc |-> acc_num,
                     rec |-> NewAccount(nm, pin)] >>
                 \o save_data
                 \o << Say("create_account", "Account created.", acc_num) >>,
                 LogEntry("create_account", acc_num, NoAcc, Zero))

\* create_account, from `acc_num = str(data["next_acc"])` on.
create_account(data, nm, pin) ==
    LET acc_num == ToString(data.next_acc)
    IN  Accepted(<< [op |-> "inc_next"],
                    [op |-> "put_account", acc |-> acc_num,
                     rec |-> NewAccount(nm, pin)] >>
                 \o save_data
                 \o << Say("create_account", "Account created.", acc_num) >>,
                 LogEntry("create_account", acc_num, NoAcc, Zero))

\* authenticate, were it not to compare the PIN.
authenticate_any_pin(data, a, pin) ==
    IF a \notin DOMAIN data.accounts THEN Rejected("Account not found.")
    ELSE Accepted(<<>>, LogEntry("authenticate", a, NoAcc, Zero))

\* authenticate(data), given what the user typed.
authenticate(data, a, pin) ==
    IF a \notin DOMAIN data.accounts THEN Rejected("Account not found.")
    ELSE IF data.accounts[a].pin # pin THEN Rejected("Invalid PIN.")
    ELSE Accepted(<<>>, LogEntry("authenticate", a, NoAcc, Zero))

\* deposit, were it to report success before it calls save_data.
deposit_reports_first(data, a, s) ==
    LET f == ParseFloat(s)
        amt == f.val
    IN  IF ~f.ok THEN Rejected("Invalid amount.")
        ELSE IF FLe(amt, Zero) THEN Rejected("Amount must be positive.")
        ELSE Accepted(<< [op |-> "add_balance", acc |-> a, amt |-> amt],
                         [op |-> "add_history", acc |-> a, typ |-> "deposit",
                          amt |-> amt, note |-> <<"Cash deposit">>],
                         Say("deposit", "Deposited", a) >>
                      \o save_data,
                      LogEntry("deposit", a, NoAcc, amt))

\* deposit(data, acc), given what the user typed.
deposit(data, a, s) ==
    LET f == ParseFloat(s)
        amt == f.val
    IN  IF ~f.ok THEN Rejected("Invalid amount.")
        ELSE IF FLe(amt, Zero) THEN Rejected("Amount must be positive.")
        ELSE Accepted(<< [op |-> "add_balance", acc |-> a, amt |-> amt],
                         [op |-> "add_history", acc |-> a, typ |-> "deposit",
                          amt |-> amt, note |-> <<"Cash deposit">>] >>
                      \o save_data
                      \o << Say("deposit", "Deposited", a) >>,
                      LogEntry("deposit", a, NoAcc, amt))

\* withdraw, were it to take a new account number as well.
withdraw_takes_number(data, a, s) ==
    LET f == ParseFloat(s)
        amt == f.val
    IN  IF ~f.ok THEN Rejected("Invalid amount.")
        ELSE IF FLe(amt, Zero) THEN Rejected("Amount must be positive.")
        ELSE IF FLt(data.accounts[a].balance, amt) THEN Rejected("Insufficient funds.")
        ELSE Accepted(<< [op |-> "sub_balance", acc |-> a, amt |-> amt],
                         [op |-> "add_history", acc |-> a, typ |-> "withdraw",
                          amt |-> amt, note |-> <<"Cash withdrawal">>],
                         [op |-> "inc_next"] >>
                      \o save_data
                      \o << Say("withdraw", "Withdrew", a) >>,
                      LogEntry("withdraw", a, NoAcc, amt))

\* withdraw(data, acc), given what the user typed.
withdraw(data, a, s) ==
    LET f == ParseFloat(s)
        amt == f.val
    IN  IF ~f.ok THEN Rejected("Invalid amount.")
        ELSE IF FLe(amt, Zero) THEN Rejected("Amount must be positive.")
        ELSE IF FLt(data.accounts[a].balance, amt) THEN Rejected("Insufficient funds.")
        ELSE Accepted(<< [op |-> "sub_balance", acc |-> a, amt |-> amt],
                         [op |-> "add_history", acc |-> a, typ |-> "withdraw",
                          amt |-> amt, note |-> <<"Cash withdrawal">>] >>
                      \o save_data
                      \o << Say("withdraw", "Withdrew", a) >>,
                      LogEntry("withdraw", a, NoAcc, amt))

\* transfer, were it to debit the source before it checks the funds.
transfer_debits_first(data, a, to_acc, s) ==
    LET f == ParseFloat(s)
        amt == f.val
    IN  IF to_acc = a THEN Rejected("Cannot transfer to the same account.")
        ELSE IF to_acc \notin DOMAIN data.accounts
            THEN Rejected("Recipient account not found.")
        ELSE IF ~f.ok THEN Rejected("Invalid amount.")
        ELSE IF FLe(amt, Zero) THEN Rejected("Amount must be positive.")
        ELSE IF FLt(data.accounts[a].balance, amt)
            THEN Accepted(<< [op |-> "sub_balance", acc |-> a, amt |-> amt],
                             Say("transfer", "Insufficient funds.", a) >>,
                          LogEntry("transfer", a, to_acc, amt))
        ELSE Accepted(<< [op |-> "sub_balance", acc |-> a, amt |-> amt],
                         [op |-> "add_balance", acc |-> to_acc, amt |-> amt],
                         [op |-> "add_history", acc |-> a, typ |-> "transfer_out",
                          amt |-> amt, note |-> <<"To", to_acc>>],
                         [op |-> "add_history", acc |-> to_acc, typ |-> "transfer_in",
                          amt |-> amt, note |-> <<"From", a>>] >>
                      \o save_data
                      \o << Say("transfer", "Transferred", a) >>,
                      LogEntry("transfer", a, to_acc, amt))

\* transfer(data, acc), given what the user typed.
transfer(data, a, to_acc, s) ==
    LET f == ParseFloat(s)
        amt == f.val
    IN  IF to_acc = a THEN Rejected("Cannot transfer to the same account.")
        ELSE IF to_acc \notin DOMAIN data.accounts
            THEN Rejected("Recipient account not found.")
        ELSE IF ~f.ok THEN Rejected("Invalid amount.")
        ELSE IF FLe(amt, Zero) THEN Rejected("Amount must be positive.")
        ELSE IF FLt(data.accounts[a].balance, amt) THEN Rejected("Insufficient funds.")
        ELSE Accepted(<< [op |-> "sub_balance", acc |-> a, amt |-> amt],
                         [op |-> "add_balance", acc |-> to_acc, amt |-> amt],
                         [op |-> "add_history", acc |-> a, typ |-> "transfer_out",
                          amt |-> amt, note |-> <<"To", to_acc>>],
                         [op |-> "add_history", acc |-> to_acc, typ |-> "transfer_in",
                          amt |-> amt, note |-> <<"From", a>>] >>
                      \o save_data
                      \o << Say("transfer", "Transferred", a) >>,
                      LogEntry("transfer", a, to_acc, amt))

\* f"{x:.2f}"
Format2f(x) ==
    CASE x.k = "fin"  -> <<ToString(x.v), ".00">>
      [] x.k = "inf"  -> <<"inf">>
      [] x.k = "ninf" -> <<"-inf">>
      [] OTHER        -> <<"nan">>

\* show_balance(data, acc): what it prints.
show_balance(data, a) == Format2f(data.accounts[a].balance)

\* view_history, were it to print the entries in the order of insertion.
view_history_in_order(data, a) ==
    LET hist == data.accounts[a].history
    IN  [i \in 1..Len(hist) |->
            <<hist[i].type, Format2f(hist[i].amount), hist[i].note>>]

\* view_history(data, acc): the lines it prints, reversed(hist).
view_history(data, a) ==
    LET hist == data.accounts[a].history
    IN  [i \in 1..Len(hist) |->
            <<hist[Len(hist) + 1 - i].type,
              Format2f(hist[Len(hist) + 1 - i].amount),
              hist[Len(hist) + 1 - i].note>>]

(***************************************************************************)
(* One statement of a handler, executed on s = [data, disk, out, log]; the  *)
(* handler's entry is the last of the log, and s.out.p is the process.      *)
(***************************************************************************)
Exec(m, s) ==
    CASE m.op = "add_balance" ->
            [s EXCEPT !.data.accounts[m.acc].balance = FAdd(@, m.amt)]
      [] m.op = "sub_balance" ->
            [s EXCEPT !.data.accounts[m.acc].balance = FSub(@, m.amt)]
      [] m.op = "add_history" ->
            [s EXCEPT !.data = add_history(@, m.acc, m.typ, m.amt, m.note)]
      [] m.op = "inc_next" ->
            [s EXCEPT !.data.next_acc = @ + 1]
      [] m.op = "put_account" ->
            [s EXCEPT !.data.accounts = (m.acc :> m.rec) @@ @]
      [] m.op = "open_w" ->
            [s EXCEPT !.disk = FileTorn]
      [] m.op = "dump" ->
            [s EXCEPT !.disk = FileOf(s.data)]
      [] m.op = "print" ->
            [s EXCEPT !.out = Out(s.out.p, m.op_, m.msg, m.acc),
                      !.log[Len(s.log)].ok = TRUE]

RECURSIVE RunAll(_, _)
RunAll(prog, s) ==
    IF prog = <<>> THEN s ELSE RunAll(Tail(prog), Exec(Head(prog), s))

(***************************************************************************)
(* The state.                                                              *)
(***************************************************************************)
VARIABLES
    disk,   \* the file accounts.json
    data,   \* data[p]: the dictionary `data` of process p
    pc,     \* pc[p]: where process p is: "off" (not started), "main" (main
            \* menu), "pin" (create_account's PIN loop), "menu" (account_menu),
            \* "run" (inside a handler, past its checks), "exit", "dead"
    acc,    \* acc[p]: the account number authenticate returned, or NoAcc
    name,   \* name[p]: create_account's local `name`
    todo,   \* todo[p]: the statements the running handler has yet to execute
    out,    \* the last thing a process printed
    call,   \* call[p]: the handler process p is in, with the file and the
            \* dictionary as they were when it was called (history variable)
    log     \* the operations that passed their checks, in order, each with
            \* whether it has reported success (history variable)

vars == <<disk, data, pc, acc, name, todo, out, call, log>>

St(p) == [data |-> data[p], disk |-> disk, out |-> [out EXCEPT !.p = p], log |-> log]

\* The menu a handler of process p returns to.
Home(p) == IF acc[p] = NoAcc THEN "main" ELSE "menu"

LedgerOps(l) == SelectSeq(l, LAMBDA e : e.op # "create_account")

\* The bounds on the ledger operations and on the accounts.
Room(mode) ==
    Len(LedgerOps(log)) < (CASE mode = "step" -> MaxOpsStep
                             [] mode = "conc" -> MaxOpsConc
                             [] mode = "frame" -> MaxOpsFrame
                             [] OTHER         -> MaxOps)
FailRoom == Len(SelectSeq(log, LAMBDA e : ~e.ok)) <= MaxFails
CreateRoom(mode) ==
    Len(log) - Len(LedgerOps(log)) <
        (IF mode = "frame" THEN MaxAccounts + 1 ELSE MaxAccounts)

\* Process p prints a rejection: nothing else changes.
Reject(p, o) ==
    /\ out' = o
    /\ UNCHANGED <<disk, data, pc, acc, name, todo, call, log>>

\* Process p executes the statements of an accepted handler: one by one from
\* here on (mode "step"), or all of them at once (modes "atomic" and "conc").
\* The last thing printed before the first statement is the prompt of the
\* handler's last input().
Run(p, mode, r) ==
    IF mode # "step"
    THEN LET s == RunAll(r.prog, [St(p) EXCEPT !.log = Append(log, r.entry)])
         IN  /\ data' = [data EXCEPT ![p] = s.data]
             /\ disk' = s.disk
             /\ out' = s.out
             /\ log' = s.log
             /\ pc' = [pc EXCEPT ![p] = Home(p)]
             /\ UNCHANGED <<acc, name, todo, call>>
    ELSE /\ todo' = [todo EXCEPT ![p] = r.prog]
         /\ pc' = [pc EXCEPT ![p] = "run"]
         /\ call' = [call EXCEPT ![p] =
                        [op |-> r.entry.op, at |-> "", disk |-> disk, data |-> data[p]]]
         /\ log' = Append(log, r.entry)
         /\ out' = Out(p, r.entry.op, "(prompt)", acc[p])
         /\ UNCHANGED <<disk, data, acc, name>>


(***************************************************************************)
(* The actions: main() and account_menu().                                 *)
(***************************************************************************)
Init ==
    /\ disk = FileAbsent
    /\ data = [p \in Procs |-> DefaultStore]
    /\ pc = [p \in Procs |-> "off"]
    /\ acc = [p \in Procs |-> NoAcc]
    /\ name = [p \in Procs |-> ""]
    /\ todo = [p \in Procs |-> <<>>]
    /\ out = NoOut
    /\ call = [p \in Procs |-> NoCall]
    /\ log = <<>>

\* The process dies of an uncaught exception, or is killed: its memory is gone.
Die(p, msg, at) ==
    /\ pc' = [pc EXCEPT ![p] = "dead"]
    /\ data' = [data EXCEPT ![p] = DefaultStore]
    /\ acc' = [acc EXCEPT ![p] = NoAcc]
    /\ name' = [name EXCEPT ![p] = ""]
    /\ todo' = [todo EXCEPT ![p] = <<>>]
    /\ out' = Out(p, call[p].op, msg, NoAcc)
    /\ call' = [call EXCEPT ![p].at = at]

\* data = load_data(), in main: at the start, and after every login attempt.
Load(p, o) ==
    LET l == load_data(disk)
    IN  IF l.ok
        THEN /\ data' = [data EXCEPT ![p] = l.data]
             /\ pc' = [pc EXCEPT ![p] = "main"]
             /\ acc' = [acc EXCEPT ![p] = NoAcc]
             /\ out' = o
             /\ call' = [call EXCEPT ![p] = NoCall]
             /\ UNCHANGED <<name, todo>>
        ELSE Die(p, "JSONDecodeError", "load_data")

\* python atm.py: main() up to its first prompt.
Start(p) ==
    /\ pc[p] \in {"off", "exit", "dead"}
    /\ Load(p, Out(p, "main", "Welcome to Simple ATM Simulator", NoAcc))
    /\ UNCHANGED <<disk, log>>

\* Main menu, choice 1: create_account up to its PIN loop.
CreateAccountName(p) ==
    /\ pc[p] = "main"
    /\ \E nm \in NameInputs :
        IF nm = ""
        THEN Reject(p, Out(p, "create_account", "Name cannot be empty.", NoAcc))
        ELSE /\ pc' = [pc EXCEPT ![p] = "pin"]
             /\ name' = [name EXCEPT ![p] = nm]
             /\ UNCHANGED <<disk, data, acc, todo, out, call, log>>

\* create_account: one round of its PIN loop, and the rest when the PIN is good.
CreateAccountPin(p, mode) ==
    /\ pc[p] = "pin"
    /\ \E pin \in PinInputs, confirm \in ConfirmInputs :
        IF ~PinWellFormed(pin)
            THEN Reject(p, Out(p, "create_account", "PIN must be exactly 4 digits.",
                               NoAcc))
            ELSE IF pin # confirm
            THEN Reject(p, Out(p, "create_account", "PINs do not match. Try again.",
                               NoAcc))
            ELSE /\ CreateRoom(mode)
                 /\ Run(p, mode, create_account(data[p], name[p], pin))

\* Main menu, choice 2: authenticate, then account_menu or the reload.
Login(p) ==
    /\ pc[p] = "main"
    /\ \E a \in AcctInputs, pin \in PinInputs :
        LET r == authenticate(data[p], a, pin)
        IN  IF r.ok
            THEN /\ pc' = [pc EXCEPT ![p] = "menu"]
                 /\ acc' = [acc EXCEPT ![p] = a]
                 /\ out' = [Out(p, "authenticate", "--- Account Menu ---", a)
                                EXCEPT !.val = <<a, pin>>]
                 /\ UNCHANGED <<data, name, todo, call>>
            ELSE Load(p, [Out(p, "authenticate", r.msg, NoAcc)
                                EXCEPT !.val = <<a, pin>>])
    /\ UNCHANGED <<disk, log>>

\* Main menu, choice 3.
Exit(p) ==
    /\ pc[p] = "main"
    /\ pc' = [pc EXCEPT ![p] = "exit"]
    /\ out' = Out(p, "main", "Goodbye!", NoAcc)
    /\ UNCHANGED <<disk, data, acc, name, todo, call, log>>

\* Either menu, any other choice.
InvalidChoice(p) ==
    /\ pc[p] \in {"main", "menu"}
    /\ Reject(p, Out(p, pc[p], "Invalid choice.", acc[p]))

\* Account menu, choice 1.
ShowBalance(p) ==
    /\ pc[p] = "menu"
    /\ Reject(p, [Out(p, "show_balance", "Current balance:", acc[p])
                    EXCEPT !.val = show_balance(data[p], acc[p])])

\* Account menu, choice 2.
Deposit(p, mode) ==
    /\ pc[p] = "menu"
    /\ \E s \in AmountInputs :
        LET r == deposit(data[p], acc[p], s)
        IN  IF r.ok
            THEN Room(mode) /\ Run(p, mode, r)
            ELSE Reject(p, Out(p, "deposit", r.msg, acc[p]))

\* Account menu, choice 3.
Withdraw(p, mode) ==
    /\ pc[p] = "menu"
    /\ \E s \in AmountInputs :
        LET r == withdraw(data[p], acc[p], s)
        IN  IF r.ok
            THEN Room(mode) /\ Run(p, mode, r)
            ELSE Reject(p, Out(p, "withdraw", r.msg, acc[p]))

\* Account menu, choice 4.
Transfer(p, mode) ==
    /\ pc[p] = "menu"
    /\ \E to_acc \in AcctInputs, s \in AmountInputs :
        LET r == transfer(data[p], acc[p], to_acc, s)
        IN  IF r.ok
            THEN Room(mode) /\ Run(p, mode, r)
            ELSE Reject(p, Out(p, "transfer", r.msg, acc[p]))

\* Account menu, choice 5.
ViewHistory(p) ==
    /\ pc[p] = "menu"
    /\ Reject(p, [Out(p, "view_history", "--- Transaction history (most recent first) ---",
                        acc[p])
                    EXCEPT !.val = view_history(data[p], acc[p])])

\* Account menu, choice 6, and main's reload after account_menu returns.
Logout(p) ==
    /\ pc[p] = "menu"
    /\ Load(p, Out(p, "account_menu", "Logging out.", acc[p]))
    /\ UNCHANGED <<disk, log>>

\* The next statement of the running handler.
Step(p) ==
    /\ pc[p] = "run"
    /\ LET s == Exec(Head(todo[p]), St(p))
           rest == Tail(todo[p])
       IN  /\ data' = [data EXCEPT ![p] = s.data]
           /\ disk' = s.disk
           /\ out' = s.out
           /\ log' = s.log
           /\ todo' = [todo EXCEPT ![p] = rest]
           /\ pc' = [pc EXCEPT ![p] = IF rest = <<>> THEN Home(p) ELSE "run"]
           /\ call' = [call EXCEPT ![p] = IF rest = <<>> THEN NoCall ELSE @]
           /\ UNCHANGED <<acc, name>>

\* The process is killed, at a prompt or between two statements of a handler.
Crash(p) ==
    /\ pc[p] \in {"main", "pin", "menu", "run"}
    /\ pc[p] = "run" => FailRoom
    /\ Die(p, "Killed", IF pc[p] = "run" THEN Head(todo[p]).op ELSE "")
    /\ UNCHANGED <<disk, log>>

\* save_data fails: open raises OSError and leaves the file as it is, or the
\* write raises it and leaves the file truncated.
SaveFail(p) ==
    /\ pc[p] = "run"
    /\ Head(todo[p]).op \in {"open_w", "dump"}
    /\ FailRoom
    /\ Die(p, "OSError", Head(todo[p]).op)
    /\ UNCHANGED <<disk, log>>

(***************************************************************************)
(* One process, every handler in one step, no failure.                     *)
(***************************************************************************)
Next ==
    \/ Start(1)
    \/ CreateAccountName(1)
    \/ CreateAccountPin(1, "atomic")
    \/ Login(1)
    \/ Exit(1)
    \/ InvalidChoice(1)
    \/ ShowBalance(1)
    \/ Deposit(1, "atomic")
    \/ Withdraw(1, "atomic")
    \/ Transfer(1, "atomic")
    \/ ViewHistory(1)
    \/ Logout(1)

Spec == Init /\ [][Next]_vars

(***************************************************************************)
(* One process, statement by statement, which may be killed at any point   *)
(* and whose save_data may fail.                                           *)
(***************************************************************************)
NextStep ==
    \/ Start(1)
    \/ CreateAccountName(1)
    \/ CreateAccountPin(1, "step")
    \/ Login(1)
    \/ Exit(1)
    \/ InvalidChoice(1)
    \/ ShowBalance(1)
    \/ Deposit(1, "step")
    \/ Withdraw(1, "step")
    \/ Transfer(1, "step")
    \/ ViewHistory(1)
    \/ Logout(1)
    \/ Step(1)
    \/ Crash(1)
    \/ SaveFail(1)

SpecStep == Init /\ [][NextStep]_vars

(***************************************************************************)
(* Two processes on the same file.                                         *)
(***************************************************************************)
NextConc ==
    \E p \in Procs :
        \/ Start(p)
        \/ CreateAccountName(p)
        \/ CreateAccountPin(p, "conc")
        \/ Login(p)
        \/ Exit(p)
        \/ InvalidChoice(p)
        \/ ShowBalance(p)
        \/ Deposit(p, "conc")
        \/ Withdraw(p, "conc")
        \/ Transfer(p, "conc")
        \/ ViewHistory(p)
        \/ Logout(p)

SpecConc == Init /\ [][NextConc]_vars


(***************************************************************************)
(* One process, every handler in one step, no failure, with room for one   *)
(* account more and for fewer ledger operations.                           *)
(***************************************************************************)
NextFrame ==
    \/ Start(1)
    \/ CreateAccountName(1)
    \/ CreateAccountPin(1, "frame")
    \/ Login(1)
    \/ Exit(1)
    \/ InvalidChoice(1)
    \/ ShowBalance(1)
    \/ Deposit(1, "frame")
    \/ Withdraw(1, "frame")
    \/ Transfer(1, "frame")
    \/ ViewHistory(1)
    \/ Logout(1)

SpecFrame == Init /\ [][NextFrame]_vars


(***************************************************************************)
(* What the claims are stated with.                                        *)
(***************************************************************************)
\* The store a reader of the file sees.
Persisted == load_data(disk).data

\* Sums of amounts as real numbers (no rounding), with inf and nan as in the
\* extended reals: the arithmetic of the claims, not of the program.
RECURSIVE ExactSum(_)
ExactSum(amts) ==
    IF amts = <<>> THEN Zero ELSE FAddExact(Head(amts), ExactSum(Tail(amts)))

ExactDiff(a, b) == FAddExact(a, FNeg(b))

RECURSIVE TotalBalance(_, _)
TotalBalance(accounts, S) ==
    IF S = {} THEN Zero
    ELSE LET a == CHOOSE x \in S : TRUE
         IN  FAddExact(accounts[a].balance, TotalBalance(accounts, S \ {a}))

Amounts(entries) == [i \in 1..Len(entries) |-> entries[i].amt]

\* The operations of kind op that have reported success.
Succeeded(op) == SelectSeq(log, LAMBDA e : e.ok /\ e.op = op)

\* The successful ledger operations that touched account a.
Touched(a) ==
    SelectSeq(log, LAMBDA e : /\ e.ok
                              /\ e.op \in {"deposit", "withdraw", "transfer"}
                              /\ (e.acc = a \/ e.to = a))

HistAmounts(hist, types) ==
    LET sel == SelectSeq(hist, LAMBDA h : h.type \in types)
    IN  [i \in 1..Len(sel) |-> sel[i].amount]

\* C1. Conservation: in the store of the process and in the file, the sum of
\* all balances is the sum of the amounts of the successful deposits minus
\* the sum of the amounts of the successful withdrawals (transfers are not in
\* the right-hand side, so a transfer leaves the sum unchanged).  nan counts
\* as equal to nan here.
Conservation ==
    LET net == ExactDiff(ExactSum(Amounts(Succeeded("deposit"))),
                         ExactSum(Amounts(Succeeded("withdraw"))))
    IN  /\ pc[1] \in {"main", "pin", "menu"} =>
              TotalBalance(data[1].accounts, DOMAIN data[1].accounts) = net
        /\ load_data(disk).ok =>
              TotalBalance(Persisted.accounts, DOMAIN Persisted.accounts) = net

\* C2. Non-negativity: every balance is >= 0 (as Python compares floats).
NonNegativity ==
    \A a \in DOMAIN data[1].accounts : FLe(Zero, data[1].accounts[a].balance)

\* C4. History completeness: every account's history has one entry more than
\* the successful ledger operations that touched the account, and its balance
\* is the sum of the amounts of its create, deposit and transfer_in entries
\* minus the sum of those of its withdraw and transfer_out entries.  nan
\* counts as equal to nan here.
HistoryComplete ==
    \A a \in DOMAIN data[1].accounts :
        LET h == data[1].accounts[a].history
        IN  /\ Len(h) = 1 + Len(Touched(a))
            /\ data[1].accounts[a].balance =
                 ExactDiff(ExactSum(HistAmounts(h, {"create", "deposit", "transfer_in"})),
                           ExactSum(HistAmounts(h, {"withdraw", "transfer_out"})))

\* What a reader of the file sees of account a: nothing when the file does
\* not parse or the account is not in it, else its balance and history.
Seen(file, a) ==
    LET l == load_data(file)
    IN  IF l.ok /\ a \in DOMAIN l.data.accounts
        THEN [readable |-> TRUE, balance |-> l.data.accounts[a].balance,
              history |-> l.data.accounts[a].history]
        ELSE [readable |-> FALSE, balance |-> Zero, history |-> <<>>]

\* The entry of the log of the handler the process is in, or died in.
Current == log[Len(log)]

\* C3. Atomic transfer: when the process has died inside a transfer (here: of
\* a finite amount), a reader of the file sees both accounts' balances and
\* histories as they were before the call.
AtomicTransfer ==
    (pc[1] = "dead" /\ call[1].op = "transfer" /\ Current.amt.k = "fin") =>
        /\ Seen(disk, Current.acc) = Seen(call[1].disk, Current.acc)
        /\ Seen(disk, Current.to) = Seen(call[1].disk, Current.to)

\* C7. Storage failure leaves no partial state: when save_data has failed or
\* was interrupted (the process died at its open or at its write), the file
\* is exactly what it was before the operation began, and the operation has
\* not reported success.
NoPartialSave ==
    (pc[1] = "dead" /\ call[1].at \in {"open_w", "dump"}) =>
        /\ disk = call[1].disk
        /\ ~Current.ok

Last(s) == s[Len(s)]

\* The effect of the operation of log entry e is in store d.
EffectIn(e, d) ==
    CASE e.op = "create_account" ->
            /\ e.acc \in DOMAIN d.accounts
            /\ d.accounts[e.acc].history[1].type = "create"
      [] e.op = "deposit" ->
            Last(d.accounts[e.acc].history) = Entry("deposit", e.amt, <<"Cash deposit">>)
      [] e.op = "withdraw" ->
            Last(d.accounts[e.acc].history) = Entry("withdraw", e.amt, <<"Cash withdrawal">>)
      [] e.op = "transfer" ->
            /\ Last(d.accounts[e.acc].history) = Entry("transfer_out", e.amt, <<"To", e.to>>)
            /\ Last(d.accounts[e.to].history) = Entry("transfer_in", e.amt, <<"From", e.acc>>)

\* The step in which the running handler reports success.
Reports == Len(log') = Len(log) /\ Len(log) > 0 /\ ~Current.ok /\ Current'.ok

\* C5. Durability before success: in the step in which create_account,
\* deposit, withdraw or transfer reports success, the file already holds a
\* whole document, which has the effect of the operation and is the store of
\* the process.
DurableBeforeSuccess ==
    [][Reports => /\ load_data(disk).ok
                  /\ EffectIn(Current, Persisted)
                  /\ Persisted = data[1]
                  /\ disk' = disk]_vars

C5_Witness ==
    /\ pc[1] = "menu"
    /\ out.msg = "Transferred"
    /\ Len(log) > 0 /\ Current.ok /\ Current.op = "transfer"
    /\ \E i \in 1..Len(log) : ~log[i].ok

RejectionMsgs ==
    {"Name cannot be empty.", "Account not found.", "Invalid PIN.", "Invalid amount.",
     "Amount must be positive.", "Insufficient funds.",
     "Cannot transfer to the same account.", "Recipient account not found."}

\* C6. Rejected operations change nothing: a step that ends in one of the
\* rejections leaves the store of the process and the file as they were.
RejectedChangesNothing ==
    [][out'.msg \in RejectionMsgs => (data' = data /\ disk' = disk)]_vars

C6_Witness ==
    /\ out.msg = "Insufficient funds."
    /\ out.op = "transfer"
    /\ \E i \in 1..Len(log) : log[i].op = "deposit" /\ log[i].amt.k = "fin"

\* C8. No lost update: every successful ledger operation of either process
\* is in the file: each account's history in the file has one entry more than
\* the successful ledger operations that touched the account.
NoLostUpdate ==
    \A a \in AcctInputs :
        Len(Touched(a)) = (IF a \in DOMAIN Persisted.accounts
                           THEN Len(Persisted.accounts[a].history) - 1
                           ELSE 0)

\* The number an account key spells.
AccNum(a) == CHOOSE n \in BaseAcc..(BaseAcc + MaxAccounts + 1) : ToString(n) = a

NumbersIn(d) ==
    LET created == Succeeded("create_account")
    IN  /\ \A a \in DOMAIN d.accounts : AccNum(a) < d.next_acc
        /\ DOMAIN d.accounts = { created[i].acc : i \in 1..Len(created) }
        /\ Cardinality(DOMAIN d.accounts) = Len(created)

\* C9. Account numbers are unique and never reused: the successful
\* create_account calls have returned 1001, 1002, ... in this order; next_acc
\* is greater than every existing account number; and the accounts of the
\* store are those the calls created, one for each call (none was
\* overwritten), in the store of the process and in the file.
UniqueNumbers ==
    LET created == Succeeded("create_account")
    IN  /\ \A i \in 1..Len(created) : created[i].acc = ToString(BaseAcc + i - 1)
        /\ NumbersIn(data[1])
        /\ NumbersIn(Persisted)

\* Two accounts, the second created after a login session with a deposit, so
\* after main's reload.
C9_Witness ==
    /\ Len(log) = 3
    /\ log[1].op = "create_account" /\ log[2].op = "deposit"
    /\ log[3].op = "create_account" /\ log[3].acc = "1002"
    /\ DOMAIN data[1].accounts = {"1001", "1002"}

LedgerHandlers == {"show_balance", "deposit", "withdraw", "transfer", "view_history"}

\* C10. In a step of authenticate with account number a and PIN pin typed:
\* the process enters the account menu, for account a, exactly when a is in
\* the store and pin is its PIN; it prints "Account not found." when a is not
\* in the store and "Invalid PIN." when a is and pin differs.  The session's
\* account changes only by such a successful step or to none, and every
\* balance read, deposit, withdraw, transfer or history read is made from
\* the account menu on the session's account.
AuthenticatedSession ==
    [][/\ (pc[1] = "main" /\ out'.op = "authenticate" /\ pc'[1] # "pin") =>
            LET a == out'.val[1]
                pin == out'.val[2]
                known == a \in DOMAIN data[1].accounts
            IN  /\ (pc'[1] = "menu") <=> (known /\ data[1].accounts[a].pin = pin)
                /\ pc'[1] = "menu" => acc'[1] = a
                /\ ~known => out'.msg = "Account not found."
                /\ (known /\ data[1].accounts[a].pin # pin) => out'.msg = "Invalid PIN."
       /\ acc'[1] # acc[1] =>
            \/ acc'[1] = NoAcc
            \/ /\ out'.op = "authenticate"
               /\ acc'[1] = out'.val[1]
               /\ acc'[1] \in DOMAIN data[1].accounts
               /\ data[1].accounts[acc'[1]].pin = out'.val[2]
       /\ out'.op \in LedgerHandlers =>
            /\ pc[1] = "menu"
            /\ acc[1] # NoAcc
            /\ out'.acc = acc[1]
            /\ log' # log => Last(log').acc = acc[1]
      ]_vars

C10_Witness ==
    /\ out.op = "authenticate" /\ out.msg = "Invalid PIN."
    /\ \E i \in 1..Len(log) : log[i].op = "withdraw" /\ log[i].ok

\* The step appends an entry to the log: a handler has passed its checks.
Grew == Len(log') = Len(log) + 1

Bal(d, a) == d.accounts[a].balance
Hist(d, a) == d.accounts[a].history

\* An amount the claims call valid: a well-formed, finite, positive number.
ValidAmount(f) == f.ok /\ f.val.k = "fin" /\ f.val.v > 0

\* C11. Amount validity: a deposit, withdraw or transfer passes its checks
\* only with an amount that is a finite number > 0; an accepted deposit
\* increases the balance by exactly the amount and appends one 'deposit'
\* entry with that amount and the note 'Cash deposit'; at the account menu,
\* deposit rejects every input that is no valid amount.
AmountValidity ==
    [][/\ (Grew /\ Last(log').op \in {"deposit", "withdraw", "transfer"}) =>
            LET e == Last(log')
            IN  /\ e.amt.k = "fin" /\ e.amt.v > 0
                /\ e.op = "deposit" =>
                    /\ Bal(data'[1], e.acc) = FAddExact(Bal(data[1], e.acc), e.amt)
                    /\ Hist(data'[1], e.acc) =
                         Append(Hist(data[1], e.acc),
                                Entry("deposit", e.amt, <<"Cash deposit">>))
       /\ pc[1] = "menu" =>
            \A s \in AmountInputs :
                ~ValidAmount(ParseFloat(s)) => ~deposit(data[1], acc[1], s).ok
      ]_vars

\* C12. withdraw of a finite positive amount: at the account menu it is
\* rejected with 'Insufficient funds.' exactly when the amount is greater
\* than the balance; when it is accepted, the balance decreases by exactly
\* the amount (to exactly zero when the amount is the balance) and one
\* 'withdraw' entry with that amount and the note 'Cash withdrawal' is
\* appended.
WithdrawContract ==
    [][/\ pc[1] = "menu" =>
            \A s \in AmountInputs :
                ValidAmount(ParseFloat(s)) =>
                    LET r == withdraw(data[1], acc[1], s)
                    IN  /\ (r.msg = "Insufficient funds.")
                              <=> FLt(Bal(data[1], acc[1]), ParseFloat(s).val)
                        /\ r.ok <=> ~FLt(Bal(data[1], acc[1]), ParseFloat(s).val)
       /\ (Grew /\ Last(log').op = "withdraw" /\ Last(log').amt.k = "fin") =>
            LET e == Last(log')
            IN  /\ Bal(data'[1], e.acc) = ExactDiff(Bal(data[1], e.acc), e.amt)
                /\ FEq(e.amt, Bal(data[1], e.acc)) => Bal(data'[1], e.acc) = Zero
                /\ Hist(data'[1], e.acc) =
                     Append(Hist(data[1], e.acc),
                            Entry("withdraw", e.amt, <<"Cash withdrawal">>))
      ]_vars

\* What the claim of C13 has transfer print for recipient to_acc and typed
\* amount s ("" when it accepts), its checks taken in the claimed order.
TransferVerdict(d, a, to_acc, s) ==
    LET f == ParseFloat(s)
    IN  CASE to_acc = a                   -> "Cannot transfer to the same account."
          [] to_acc \notin DOMAIN d.accounts -> "Recipient account not found."
          [] ~f.ok                        -> "Invalid amount."
          [] FLe(f.val, Zero)             -> "Amount must be positive."
          [] FLt(Bal(d, a), f.val)        -> "Insufficient funds."
          [] OTHER                        -> ""

\* C13. transfer, for amounts that are finite or do not parse: at the account
\* menu it reports the first check that fails, in the order same account,
\* recipient not found, amount invalid or not positive, insufficient funds
\* of the source; when it is accepted, the balance of the source decreases
\* and the balance of the destination increases by exactly the amount, one
\* 'transfer_out' entry naming the destination is appended to the source's
\* history and one 'transfer_in' entry naming the source to the
\* destination's, both with the amount.
TransferContract ==
    [][/\ pc[1] = "menu" =>
            \A to_acc \in AcctInputs, s \in AmountInputs :
                (~ParseFloat(s).ok \/ ParseFloat(s).val.k = "fin") =>
                    transfer(data[1], acc[1], to_acc, s).msg
                        = TransferVerdict(data[1], acc[1], to_acc, s)
       /\ (Grew /\ Last(log').op = "transfer" /\ Last(log').amt.k = "fin") =>
            LET e == Last(log')
            IN  /\ Bal(data'[1], e.acc) = ExactDiff(Bal(data[1], e.acc), e.amt)
                /\ Bal(data'[1], e.to) = FAddExact(Bal(data[1], e.to), e.amt)
                /\ Hist(data'[1], e.acc) =
                     Append(Hist(data[1], e.acc),
                            Entry("transfer_out", e.amt, <<"To", e.to>>))
                /\ Hist(data'[1], e.to) =
                     Append(Hist(data[1], e.to),
                            Entry("transfer_in", e.amt, <<"From", e.acc>>))
      ]_vars

\* C14. create_account: a call that passes its checks (the name not empty,
\* the PIN four digits) adds exactly one account, whose number is the
\* next_acc of the call and was not in the store, with the name and PIN
\* typed, balance 0 and a history of one 'create' entry of amount 0, leaves
\* every other account as it is and increments next_acc by one; the first
\* account created on the empty store is 1001; a call with an empty name
\* changes nothing; and next_acc changes in no other step.
CreateContract ==
    [][/\ (Grew /\ Last(log').op = "create_account") =>
            LET a == ToString(data[1].next_acc)
                old == data[1].accounts
                new == data'[1].accounts
            IN  /\ Last(log').acc = a
                /\ a \notin DOMAIN old
                /\ DOMAIN new = DOMAIN old \cup {a}
                /\ \A b \in DOMAIN old : new[b] = old[b]
                /\ name[1] # "" /\ new[a].name = name[1]
                /\ PinWellFormed(new[a].pin)
                /\ new[a].balance = Zero
                /\ new[a].history = << Entry("create", Zero, <<"Account created">>) >>
                /\ data'[1].next_acc = data[1].next_acc + 1
                /\ DOMAIN old = {} => a = "1001"
                /\ Persisted' = data'[1]
       /\ out'.msg = "Name cannot be empty." => (data' = data /\ disk' = disk)
       /\ data'[1].next_acc # data[1].next_acc =>
            (Grew /\ Last(log').op = "create_account")
       /\ DOMAIN data'[1].accounts # DOMAIN data[1].accounts =>
            (Grew /\ Last(log').op = "create_account")
      ]_vars

C14_Witness ==
    /\ out.op = "create_account" /\ out.msg = "Account created." /\ out.acc = "1002"
    /\ data[1].next_acc = 1003
    /\ Bal(data[1], "1001") # Zero

\* C15. Reads are pure and repeatable: a step of show_balance or
\* view_history changes neither the store of the process nor the file; what
\* it prints is determined by the store (the balance of the session's
\* account; the entries of its history, last one first), so that a read
\* that follows a read of the same kind prints the same.
ReadsArePure ==
    [][/\ out'.op \in {"show_balance", "view_history"} =>
            (data' = data /\ disk' = disk /\ log' = log /\ acc' = acc)
       /\ out'.op = "show_balance" =>
            out'.val = Format2f(Bal(data'[1], acc'[1]))
       /\ out'.op = "view_history" =>
            LET h == Hist(data'[1], acc'[1])
            IN  /\ Len(out'.val) = Len(h)
                /\ \A i \in 1..Len(h) :
                      out'.val[i] = << h[Len(h) + 1 - i].type,
                                       Format2f(h[Len(h) + 1 - i].amount),
                                       h[Len(h) + 1 - i].note >>
       /\ (out.op = out'.op /\ out.op \in {"show_balance", "view_history"}) =>
            out'.val = out.val
      ]_vars

C15_Witness ==
    /\ out.op = "view_history"
    /\ Len(out.val) = 3
    /\ out.val[1][1] = "withdraw" /\ out.val[2][1] = "deposit"

\* The signed amount of the operation the step logs, for account a: what
\* the operation adds to the balance of a in exact arithmetic.
Delta(a) ==
    IF ~Grew THEN Zero
    ELSE LET e == Last(log')
         IN  CASE e.op = "deposit" /\ e.acc = a  -> e.amt
               [] e.op = "withdraw" /\ e.acc = a -> FNeg(e.amt)
               [] e.op = "transfer" /\ e.acc = a -> FNeg(e.amt)
               [] e.op = "transfer" /\ e.to = a  -> e.amt
               [] OTHER                          -> Zero

\* C16. Currency arithmetic is exact: in every step with a finite amount,
\* every finite balance changes by exactly the signed amount of the
\* operation of the step, without rounding.
ExactCurrency ==
    [][\A a \in DOMAIN data[1].accounts :
          (/\ a \in DOMAIN data'[1].accounts
           /\ Bal(data[1], a).k = "fin"
           /\ Grew => Last(log').amt.k = "fin") =>
              Bal(data'[1], a) = FAddExact(Bal(data[1], a), Delta(a))
      ]_vars

IsPrefix(s, u) == Len(s) <= Len(u) /\ \A i \in 1..Len(s) : u[i] = s[i]

\* Every history of store d begins with its only 'create' entry.
OneCreate(d) ==
    \A a \in DOMAIN d.accounts :
        /\ Len(Hist(d, a)) >= 1
        /\ \A i \in 1..Len(Hist(d, a)) : (Hist(d, a)[i].type = "create") <=> (i = 1)

\* Store e has every account of store d, with the same name and PIN and a
\* history that the history in d is a prefix of.
Extends(d, e) ==
    \A a \in DOMAIN d.accounts :
        /\ a \in DOMAIN e.accounts
        /\ e.accounts[a].name = d.accounts[a].name
        /\ e.accounts[a].pin = d.accounts[a].pin
        /\ IsPrefix(Hist(d, a), Hist(e, a))

\* C17. History is append-only and accounts are permanent: across every
\* step, in the store of the process and in the file, every account stays,
\* with its number, name and PIN, and its history has the previous history
\* as a prefix; every history begins with its only 'create' entry.
AppendOnly ==
    [][/\ Extends(data[1], data'[1])
       /\ Extends(Persisted, Persisted')
       /\ OneCreate(data[1]) /\ OneCreate(data'[1])
       /\ OneCreate(Persisted) /\ OneCreate(Persisted')
      ]_vars

C17_Witness ==
    /\ pc[1] = "main"
    /\ out.msg = "Logging out."
    /\ DOMAIN data[1].accounts = {"1001", "1002"}
    /\ Len(Hist(data[1], "1001")) = 3
    /\ Len(Hist(data[1], "1002")) = 2
    /\ Hist(data[1], "1002")[2].type = "transfer_in"

\* C19. In one process without failures: at every prompt (main menu,
\* create_account's PIN prompt, account menu) the store of the process is
\* the store in the file; and the reload of main after a login attempt or a
\* session leaves the store of the process as it was.
MemoryIsPersisted ==
    [][/\ pc[1] \in {"main", "pin", "menu"} =>
            (load_data(disk).ok /\ data[1] = Persisted)
       /\ pc'[1] \in {"main", "pin", "menu"} =>
            (load_data(disk').ok /\ data'[1] = Persisted')
       /\ (pc'[1] = "main" /\ out'.op \in {"authenticate", "account_menu"}) =>
            data' = data
      ]_vars

C19_Witness ==
    /\ pc[1] = "main"
    /\ out.op = "authenticate" /\ out.msg = "Account not found."
    /\ Len(log) = 3 /\ log[3].op = "withdraw" /\ log[3].ok
    /\ Bal(Persisted, "1001") = [k |-> "fin", v |-> 3]

\* Stores d and e differ at most in the balances and histories of the
\* accounts of S.
SameBut(d, e, S) ==
    /\ e.next_acc = d.next_acc
    /\ DOMAIN e.accounts = DOMAIN d.accounts
    /\ \A b \in DOMAIN d.accounts :
          IF b \in S
          THEN /\ e.accounts[b].name = d.accounts[b].name
               /\ e.accounts[b].pin = d.accounts[b].pin
          ELSE e.accounts[b] = d.accounts[b]

\* C18. Frame of the ledger operations: a step of an accepted deposit or
\* withdraw changes, in the store of the process and in the file, only the
\* balance and the history of the session's account; a step of an accepted
\* transfer only those of the source and of the destination; next_acc, the
\* other accounts and the set of accounts stay as they are.
LedgerFrame ==
    [][(Grew /\ Last(log').op \in {"deposit", "withdraw", "transfer"}) =>
          LET e == Last(log')
              S == IF e.op = "transfer" THEN {e.acc, e.to} ELSE {e.acc}
          IN  /\ e.acc = acc[1]
              /\ SameBut(data[1], data'[1], S)
              /\ SameBut(Persisted, Persisted', S)
      ]_vars

\* A transfer of a finite amount between two of three accounts, the third
\* one with nothing but its 'create' entry.
C18_Witness ==
    /\ out.op = "transfer" /\ out.msg = "Transferred"
    /\ Cardinality(DOMAIN data[1].accounts) = 3
    /\ Last(log).op = "transfer" /\ Last(log).amt.k = "fin"
    /\ \E b \in DOMAIN data[1].accounts :
          /\ b \notin {Last(log).acc, Last(log).to}
          /\ Len(Hist(data[1], b)) = 1

=============================================================================
